---- MODULE Spec2Model ----
(***************************************************************************)
(* Full-duplex voice coordinator: the playback handlers (tts_handler.py,   *)
(* tts_handler_optimized.py), the Cartesia engine's producer/consumer      *)
(* queue (cartesia_tts_engine_optimized.py) and the barge-in detectors.    *)
(*                                                                         *)
(* Two systems are specified.  Spec: the methods of a handler are called   *)
(* by a free caller and a second thread.  MainSpec: main.py's coordinator  *)
(* (main, handle_conversation_turn, ConversationManager) drives            *)
(* tts_handler.py and reads the polling text of stt_handler.py.            *)
(*                                                                         *)
(* One handler is configured per run (variable `variant`):                 *)
(*   "piper"    tts_handler.py            (the one main.py imports)        *)
(*   "system"   tts_handler_optimized.py, SystemEngine path                *)
(*   "cartesia" tts_handler_optimized.py, Cartesia path + engine           *)
(*                                                                         *)
(* Threads are interleaved at their accesses to shared state; a            *)
(* `with lock:` block that cannot block inside is one step that needs the  *)
(* lock free.  A sleep is a point where the other activities may run.      *)
(*                                                                         *)
(* Time: `time.time() - playback_start` is a timer that runs from the      *)
(* moment playback_start is taken; it counts ticks of 50 ms and stops at   *)
(* the startup buffer (Tick).  A run is shorter than the long limits of    *)
(* the code (10 s in play_audio's wait loop, 30 s in                       *)
(* wait_for_completion): they do not run out.  The 2 s after which         *)
(* play_audio assumes its audio complete can run out.                      *)
(***************************************************************************)
EXTENDS Integers, Sequences, FiniteSets, TLC

\* ------------------------------------------------------------------ bounds
\* speak() calls per run
MaxSessions == 2
\* stop_playback() calls made by a thread other than the speaker
MaxStops == 1
\* audio chunks the Cartesia websocket sends for one utterance
MaxChunks == 2
\* capacity of the engine's audio queue (queue.Queue(maxsize=100), scaled down)
audio_queue_maxsize == 2
\* main(): max_turns = 50, scaled down
max_turns == 4
\* the values of max_history a ConversationManager is constructed with
MaxHistory == 3
\* add_turn calls made on a manager beyond its max_history
ExtraRecords == 5
\* audio chunks the websocket sends for one utterance when the engine runs
\* on its own
EngineChunks == 4

\* ------------------------------------------------------- program constants
\* all durations in ticks of 50 ms
\* tts_startup_buffer = 0.15 s
tts_startup_buffer == 3
\* speak(): retry_count < 5
max_stop_retries == 5
\* tts_handler.py: min_consecutive = 1
piper_min_consecutive == 1
\* tts_handler_optimized.py: min_consecutive = 2
system_min_consecutive == 2
\* tts_handler_optimized.py: self.barge_in_sensitivity = 2
barge_in_sensitivity == 2
\* main(): ConversationManager(max_history=12)
max_history == 12
\* ConversationManager: self.max_consecutive_errors = 3
max_consecutive_errors == 3

\* ------------------------------------------------------------------- texts
\* A transcript is a sequence of characters.
EmptyText == << >>
Texts == { EmptyText, <<" ">>, <<"w">>, <<"w", "a">>, <<"w", "a", "i", "t">> }

RECURSIVE LStrip(_)
LStrip(t) == IF t # << >> /\ Head(t) = " " THEN LStrip(Tail(t)) ELSE t

RECURSIVE RStrip(_)
RStrip(t) ==
    IF t # << >> /\ t[Len(t)] = " " THEN RStrip(SubSeq(t, 1, Len(t) - 1)) ELSE t

\* str.strip()
Strip(t) == RStrip(LStrip(t))

\* Python truthiness of a str
Truthy(t) == t # EmptyText

\* str.lower(), on the characters that occur
LowerChar(c) == IF c = "B" THEN "b" ELSE c
\* a lower() that changes nothing
Lower_same(t) == t

Lower(t) == [i \in 1..Len(t) |-> LowerChar(t[i])]

\* what the recorder can finalize: nothing, a word too short to count, a
\* request, an exit phrase
Utterances == { EmptyText, <<"h", "i">>, <<"w", "a", "i", "t">>,
                <<"B", "y", "e", " ">> }

\* handle_conversation_turn: the exit phrases
ExitPhrases == { <<"q", "u", "i", "t">>, <<"e", "x", "i", "t">>,
                 <<"g", "o", "o", "d", "b", "y", "e">>, <<"b", "y", "e">> }

\* what the language model answers, main()'s welcome and system prompt,
\* handle_conversation_turn's fallback and LLMHandler's error response
Reply == <<"o", "k", "a", "y">>
Welcome == <<"h", "e", "l", "l", "o">>
SystemPrompt == <<"y", "o", "u">>
FallbackText == <<"s", "o", "r", "r", "y">>
ErrorResponse == <<"o", "o", "p", "s">>

Max(a, b) == IF a >= b THEN a ELSE b

\* a timer one tick later; it stops at cap
Later(t, cap) == IF t + 1 >= cap THEN cap ELSE t + 1

Sessions == 1..MaxSessions
Callers == {"main", "stopper"}

VARIABLES
    variant,                  \* which handler is configured
    realtime_text,            \* STTHandler.realtime_text
    is_playing,               \* TTSHandler.is_playing
    barge_in_detected,        \* TTSHandler.barge_in_detected
    stop_event,               \* TTSHandler.stop_event
    state_lock,               \* TTSHandler.state_lock: "free" or the holding thread
    is_barge_in_enabled,      \* TTSHandler.is_barge_in_enabled
    last_seen_realtime_text,  \* TTSHandler.last_seen_realtime_text
    stream_is_playing,        \* TextToAudioStream.is_playing
    tpc,                      \* position of the calling threads: main, stopper
    call,                     \* main's locals and the outcome of its last wait
    sessions,                 \* number of playback threads started so far
    stops,                    \* stop_playback() calls by the stopper, and what it found
    play,                     \* per session: the play_audio thread
    mon,                      \* per session: the _monitor_barge_in thread
    confirmLog,               \* history: the last confirmation made by a detector
    engine,                   \* the Cartesia engine, its queue and its coroutines
    polling_text,             \* STTHandler.polling_text
    stt,                      \* STTHandler: capture and the polling workers
    conversation_manager,     \* main.py: the ConversationManager
    turn                      \* main.py: main() and handle_conversation_turn

envVars == <<variant, realtime_text>>
flagVars == <<is_playing, barge_in_detected, stop_event, state_lock,
              is_barge_in_enabled, last_seen_realtime_text>>
callVars == <<tpc, call, sessions, stops>>
mainVars == <<polling_text, stt, conversation_manager, turn>>
vars == <<envVars, flagVars, stream_is_playing, callVars, play, mon, confirmLog,
          engine, mainVars>>

\* by: the detector; text: the partial it read; early: a session's startup buffer
\* was running; first: no earlier poll of the detector had seen a partial
NoConfirm == [by |-> "none", text |-> EmptyText, early |-> FALSE, first |-> FALSE]

PlayIdle == [pc |-> "none"]

\* elapsed: time.time() - playback_start;
\* heard is history: a poll of this monitor has seen a partial
MonIdle == [pc |-> "none", elapsed |-> 0, consecutive_detections |-> 0,
            heard |-> FALSE]

\* a monitor thread that has returned
MonDone == [MonIdle EXCEPT !.pc = "done"]

\* cancelled is history: stop_playback() was called on the streaming session
\* while this wait_for_completion() was pending; flagged is history: a monitor
\* or stop_playback() has set barge_in_detected since the last speak() returned
CallIdle == [retry_count |-> 0, result |-> "none", cancelled |-> FALSE,
             flagged |-> FALSE]

\* n: calls made; found is history: the session the last call found ended
\* (0: it found playback going on)
StopIdle == [n |-> 0, found |-> 0]

\* a synthesize_and_play coroutine: left: chunks the websocket has still to send;
\* elapsed: time.time() - start_time
TaskIdle == [pc |-> "none", left |-> 0, elapsed |-> 0]

\* state, stop_event, audio_queue: the engine's fields; task: the coroutines on
\* the Cartesia loop; watch: the monitor_completion threads; future:
\* TTSHandler.cartesia_future (0: None); heard is history: a callback poll of
\* this utterance has seen a partial
EngineIdle == [state |-> "IDLE", stop_event |-> FALSE, audio_queue |-> << >>,
               task |-> [s \in Sessions |-> TaskIdle],
               watch |-> [s \in Sessions |-> "none"],
               future |-> 0, heard |-> FALSE]

\* STTHandler.__init__: no recorder yet, no polling thread.  workers: polling
\* worker threads alive; play_start_time: the attribute play_audio sets on the
\* handler (FALSE: not set).  starts is history: start_polling_for_barge_in
\* calls made
SttIdle == [is_listening |-> FALSE, polling_active |-> FALSE, workers |-> 0,
            play_start_time |-> FALSE, starts |-> 0]

\* STTHandler.start_listening has returned: the recorder runs
SttListening == [SttIdle EXCEPT !.is_listening = TRUE]

\* main() before its loop: start_listening(), start_polling_for_barge_in()
\* (one worker; the second call after the welcome finds polling_active set
\* and returns), and the welcome's play_audio has stamped play_start_time
SttPolling == [SttListening EXCEPT !.polling_active = TRUE, !.workers = 1,
                                   !.play_start_time = TRUE, !.starts = 2]

\* ConversationManager.__init__(max_history).  appended is history: every
\* record add_turn was given, in call order
ConversationManager(n) ==
    [history |-> << >>, max_history |-> n, turn_count |-> 0, error_count |-> 0,
     appended |-> << >>]

\* main(): conversation_manager = ConversationManager(max_history=12)
ManagerInit == ConversationManager(max_history)

\* main() is not running: the handler's methods are called by a free caller.
\* generation, count_at_start and raised are history: how the turn's last call
\* of the language model went, turn_count when the turn began, and whether
\* the turn ended in its except branch; consumed: the coordinator has taken
\* the utterance that polling_text holds as a user input
TurnIdle == [pc |-> "none", loop_count |-> 0, user_text |-> EmptyText,
             response |-> EmptyText, generation |-> "none", count_at_start |-> 0,
             raised |-> FALSE, should_exit |-> FALSE, consumed |-> FALSE]

\* the handler after construction, without its engine
HandlerIdle ==
    /\ realtime_text = EmptyText
    /\ is_playing = FALSE
    /\ barge_in_detected = FALSE
    /\ stop_event = FALSE
    /\ state_lock = "free"
    /\ last_seen_realtime_text = EmptyText
    /\ stream_is_playing = FALSE
    /\ tpc = [t \in Callers |-> "idle"]
    /\ call = CallIdle
    /\ sessions = 0
    /\ stops = StopIdle
    /\ play = [s \in Sessions |-> PlayIdle]
    /\ mon = [s \in Sessions |-> MonIdle]
    /\ confirmLog = NoConfirm
    /\ polling_text = EmptyText

\* the handler with its Cartesia engine, as constructed
HandlerInit == HandlerIdle /\ engine = EngineIdle

Init ==
    /\ variant \in {"piper", "system", "cartesia"}
    /\ HandlerInit
    /\ stt = SttListening
    /\ is_barge_in_enabled = TRUE
    /\ conversation_manager = ManagerInit
    /\ turn = TurnIdle

\* ------------------------------------------------- the session vocabulary
\* the latest session started by speak()
Current == sessions

\* session s has audio going out: its play_audio thread waits on the stream
Streams(s) ==
    /\ play[s].pc = "wait"
    /\ stream_is_playing

\* session s's detector is past its startup buffer and reads the transcript
Polling(s) ==
    /\ mon[s].pc = "loop"
    /\ ~(mon[s].elapsed < tts_startup_buffer)

\* the Cartesia coroutine of session s is receiving audio
Receiving(s) == engine.task[s].pc \in {"stream", "ending"}

\* some session's startup buffer is running
InStartup ==
    \E s \in Sessions :
       \/ mon[s].pc = "loop" /\ mon[s].elapsed < tts_startup_buffer
       \/ Receiving(s) /\ engine.task[s].elapsed < tts_startup_buffer

\* the engine is about to call the barge-in callback: a chunk arrives from the
\* websocket, or the consumer has one to play
CallbackPolling ==
    /\ variant = "cartesia"
    /\ \/ \E s \in Sessions : engine.task[s].pc = "stream" /\ engine.task[s].left > 0
       \/ engine.audio_queue # << >> /\ Head(engine.audio_queue) = "audio"

\* ------------------------------------------------------------ environment
\* 50 ms pass (time is read only through the startup buffers)
Tick ==
    /\ InStartup
    /\ mon' = [s \in Sessions |->
                 IF mon[s].pc = "loop"
                 THEN [mon[s] EXCEPT !.elapsed = Later(@, tts_startup_buffer)]
                 ELSE mon[s]]
    /\ engine' = [engine EXCEPT !.task = [s \in Sessions |->
                 IF Receiving(s)
                 THEN [@[s] EXCEPT !.elapsed = Later(@, tts_startup_buffer)]
                 ELSE @[s]]]
    /\ UNCHANGED <<envVars, flagVars, stream_is_playing, callVars, play, confirmLog>>
    /\ UNCHANGED mainVars

\* the partial transcripts of the run: under main() the user is silent or
\* says one request
Partials == IF turn.pc = "none" THEN Texts ELSE { EmptyText, <<"w", "a", "i", "t">> }

\* STTHandler._on_realtime_update: the recorder publishes a partial transcript
\* (the ones a detector is there to read)
OnRealtimeUpdate ==
    /\ stt.is_listening
    /\ \/ \E s \in Sessions : Polling(s)
       \/ CallbackPolling
    /\ \E t \in Partials : t # realtime_text /\ realtime_text' = t
    /\ UNCHANGED <<variant, flagVars, stream_is_playing, callVars, play, mon,
                   confirmLog, engine>>
    /\ UNCHANGED mainVars

\* the stream has played all the audio it was fed
StreamFinishes ==
    /\ stream_is_playing
    /\ stream_is_playing' = FALSE
    /\ UNCHANGED <<envVars, flagVars, callVars, play, mon, confirmLog, engine>>
    /\ UNCHANGED mainVars

\* --------------------------------------------- tts_handler.py: the caller
\* the condition of speak()'s while loop (the stream has no _audio_queue)
SpeakMustStop(rc) == (is_playing \/ stream_is_playing) /\ rc < max_stop_retries

\* TTSHandler.speak.  From "idle": `with self.state_lock:` is entered and the
\* while condition evaluated; from "speak_sleep": stop_playback() has returned,
\* the 0.2 s are slept with the lock held, and the condition is evaluated again.
\* In the loop: stop_playback() is entered and stops the stream.  When the loop
\* is left: the lock is released, the flag set, the STT buffer cleared and the
\* playback thread started.
Speak(enable_barge_in) ==
    /\ variant = "piper"
    /\ \/ tpc["main"] = "idle" /\ state_lock = "free" /\ sessions < MaxSessions
       \/ tpc["main"] = "speak_sleep"
    /\ LET rc == IF tpc["main"] = "speak_sleep" THEN call.retry_count + 1 ELSE 0
       IN  IF SpeakMustStop(rc)
           THEN /\ state_lock' = "main"
                /\ call' = [CallIdle EXCEPT !.retry_count = rc]
                /\ stream_is_playing' = FALSE
                /\ tpc' = [tpc EXCEPT !["main"] = "stop_flag"]
                /\ UNCHANGED <<is_barge_in_enabled, realtime_text, sessions, play>>
           ELSE /\ state_lock' = "free"
                /\ call' = CallIdle
                /\ is_barge_in_enabled' = enable_barge_in
                /\ realtime_text' = EmptyText
                /\ sessions' = sessions + 1
                /\ play' = [play EXCEPT ![sessions + 1] = [pc |-> "start"]]
                /\ tpc' = [tpc EXCEPT !["main"] = "idle"]
                /\ UNCHANGED stream_is_playing
    /\ UNCHANGED <<variant, is_playing, barge_in_detected, stop_event,
                   last_seen_realtime_text, stops, mon, confirmLog, engine>>

\* speak() called by a free caller, with either value of enable_barge_in
PiperSpeak ==
    /\ \E e \in BOOLEAN : Speak(e)
    /\ UNCHANGED mainVars

\* where stop_playback() returns to
StopReturn(t) == IF t = "main" THEN "speak_sleep" ELSE "idle"

\* a thread other than the speaker calls TTSHandler.stop_playback:
\* self.stream.stop()
StopPlaybackStream ==
    /\ variant \in {"piper", "system"}
    /\ tpc["stopper"] = "idle"
    /\ sessions >= 1
    /\ stops.n < MaxStops
    /\ stops' = [n |-> stops.n + 1,
                 found |-> IF /\ play[Current].pc = "done"
                              /\ ~is_playing
                              /\ ~stream_is_playing
                           THEN Current ELSE 0]
    /\ call' = [call EXCEPT !.cancelled =
                   @ \/ (tpc["main"] = "waiting" /\ Streams(Current))]
    /\ stream_is_playing' = FALSE
    /\ tpc' = [tpc EXCEPT !["stopper"] = "stop_flag"]
    /\ UNCHANGED <<envVars, flagVars, sessions, play, mon, confirmLog, engine>>
    /\ UNCHANGED mainVars

\* TTSHandler.stop_playback: with self.state_lock: self.barge_in_detected = True;
\* then self.stop_event.set(), and the return
StopPlaybackFlag(t) ==
    /\ tpc[t] = "stop_flag"
    /\ state_lock = "free"
    /\ barge_in_detected' = TRUE
    /\ stop_event' = TRUE
    /\ call' = [call EXCEPT !.flagged = TRUE]
    /\ tpc' = [tpc EXCEPT ![t] = StopReturn(t)]
    /\ UNCHANGED <<envVars, is_playing, state_lock, is_barge_in_enabled,
                   last_seen_realtime_text, stream_is_playing, sessions, stops,
                   play, mon, confirmLog, engine>>
    /\ UNCHANGED mainVars

\* TTSHandler.wait_for_completion is called; with Cartesia and a
\* cartesia_future it returns True at once
WaitCall ==
    /\ tpc["main"] = "idle"
    /\ sessions >= 1
    /\ call.result = "none"
    /\ IF variant = "cartesia" /\ engine.future # 0
       THEN /\ call' = [call EXCEPT !.cancelled = FALSE, !.result = "completed"]
            /\ UNCHANGED tpc
       ELSE /\ call' = [call EXCEPT !.cancelled = FALSE]
            /\ tpc' = [tpc EXCEPT !["main"] = "waiting"]
    /\ UNCHANGED <<envVars, flagVars, stream_is_playing, sessions, stops, play, mon,
                   confirmLog, engine>>
    /\ UNCHANGED mainVars

\* what one pass of wait_for_completion's loop returns ("none": sleep and go on)
WaitOutcome ==
    IF ~is_playing THEN (IF barge_in_detected THEN "interrupted" ELSE "completed")
    ELSE IF barge_in_detected THEN "interrupted"
    ELSE "none"

\* TTSHandler.wait_for_completion: the pass of the polling loop that returns
WaitPoll ==
    /\ tpc["main"] = "waiting"
    /\ state_lock = "free"
    /\ WaitOutcome # "none"
    /\ call' = [call EXCEPT !.result = WaitOutcome]
    /\ tpc' = [tpc EXCEPT !["main"] = "idle"]
    /\ UNCHANGED <<envVars, flagVars, stream_is_playing, sessions, stops, play, mon,
                   confirmLog, engine>>
    /\ UNCHANGED mainVars

\* ------------------------------------------ tts_handler.py: play_audio
\* a play_audio that stopped capture when it stamped the start time
MarkPlayStart_pausing(s) ==
    [s EXCEPT !.play_start_time = TRUE, !.is_listening = FALSE]

\* play_audio: self.main_stt.play_start_time = time.time(), the only write
\* the handler makes to the STT handler's attributes
MarkPlayStart(s) ==
    [s EXCEPT !.play_start_time = TRUE]

\* play_audio: with self.state_lock: is_playing = True; barge_in_detected = False;
\* stop_event.clear(); play_start_time is stamped; the monitor thread is started
PiperPlayBegin(s) ==
    /\ variant = "piper"
    /\ play[s].pc = "start"
    /\ state_lock = "free"
    /\ is_playing' = TRUE
    /\ barge_in_detected' = FALSE
    /\ stop_event' = FALSE
    /\ mon' = [mon EXCEPT ![s] = [MonIdle EXCEPT !.pc = "start"]]
    /\ play' = [play EXCEPT ![s].pc = "feed"]
    /\ stt' = MarkPlayStart(stt)
    /\ UNCHANGED <<envVars, state_lock, is_barge_in_enabled, last_seen_realtime_text,
                   stream_is_playing, callVars, confirmLog, engine>>
    /\ UNCHANGED <<polling_text, conversation_manager, turn>>

\* play_audio: stream.feed(text); with self.state_lock: is_playing = True;
\* stream.play_async()
PiperPlayAsync(s) ==
    /\ variant = "piper"
    /\ play[s].pc = "feed"
    /\ state_lock = "free"
    /\ is_playing' = TRUE
    /\ stream_is_playing' = TRUE
    /\ play' = [play EXCEPT ![s].pc = "wait"]
    /\ UNCHANGED <<envVars, barge_in_detected, stop_event, state_lock,
                   is_barge_in_enabled, last_seen_realtime_text, callVars, mon,
                   confirmLog, engine>>
    /\ UNCHANGED mainVars

\* play_audio's wait loop, `time.time() - start_wait > 2`: the 2 s can have run
\* out once the 150 ms of the session's startup buffer have
ShortAudioLimit(s) ==
    \/ Polling(s)
    \/ mon[s].pc \in {"done", "confirm", "confirmed"}

\* play_audio's wait loop: this pass is the last one: the stream has stopped,
\* or the audio is assumed complete after 2 s
PlayWaitOver(s) == ~stream_is_playing \/ ShortAudioLimit(s)

\* play_audio: the wait loop is left; finally: with self.state_lock:
\* is_playing = False; stop_event.clear()
PiperPlayFinally(s) ==
    /\ variant = "piper"
    /\ play[s].pc = "wait"
    /\ PlayWaitOver(s)
    /\ state_lock = "free"
    /\ is_playing' = FALSE
    /\ stop_event' = FALSE
    /\ play' = [play EXCEPT ![s].pc = "done"]
    /\ UNCHANGED <<envVars, barge_in_detected, state_lock, is_barge_in_enabled,
                   last_seen_realtime_text, stream_is_playing, callVars, mon,
                   confirmLog, engine>>
    /\ UNCHANGED mainVars

\* ------------------------------------------------------ detector history
\* a partial is present and not blank
Present(text) == Len(Strip(text)) > 0

\* a partial of at least 2 characters is present
PresentLong(text) == Len(Strip(text)) >= 2

\* the record of a confirmation
Confirmation(who, text, heard) ==
    [by |-> who, text |-> text, early |-> InStartup, first |-> ~heard]

\* ----------------------------------------------------- _monitor_barge_in
\* the debounce counter after a poll that read `text`
Debounced(c, detects, text) ==
    IF ~detects THEN c
    ELSE IF text # last_seen_realtime_text THEN c + 1
    ELSE Max(0, c - 1)

\* a debounce that confirms on the first detection
Confirms_first(c, detects, text, min_consecutive) ==
    /\ detects
    /\ text # last_seen_realtime_text

\* a poll confirms barge-in
Confirms(c, detects, text, min_consecutive) ==
    /\ detects
    /\ text # last_seen_realtime_text
    /\ Debounced(c, detects, text) >= min_consecutive

\* the poll of the real-time transcript, by the monitor of session s, of a
\* handler whose test is `detects` and whose debounce needs min_consecutive
MonitorPoll(s, who, detects, min_consecutive) ==
    LET text == realtime_text
        c == Debounced(mon[s].consecutive_detections, detects, text)
    IN  IF Confirms(mon[s].consecutive_detections, detects, text, min_consecutive)
        THEN /\ mon' = [mon EXCEPT ![s] = [MonIdle EXCEPT !.pc = "confirm"]]
             /\ confirmLog' = Confirmation(who, text, mon[s].heard)
             /\ UNCHANGED last_seen_realtime_text
        ELSE /\ mon' = [mon EXCEPT ![s].consecutive_detections = c,
                                   ![s].heard = @ \/ Present(text)]
             /\ last_seen_realtime_text' = text
             /\ UNCHANGED confirmLog

\* _monitor_barge_in up to the loop: the enabled check, playback_start, the resets
MonitorStart(s) ==
    /\ mon[s].pc = "start"
    /\ IF ~is_barge_in_enabled
       THEN /\ mon' = [mon EXCEPT ![s] = MonDone]
            /\ UNCHANGED last_seen_realtime_text
       ELSE /\ mon' = [mon EXCEPT ![s] = [MonIdle EXCEPT !.pc = "loop"]]
            /\ last_seen_realtime_text' = EmptyText
    /\ UNCHANGED <<envVars, is_playing, barge_in_detected, stop_event, state_lock,
                   is_barge_in_enabled, stream_is_playing, callVars, play, confirmLog, engine>>
    /\ UNCHANGED mainVars

\* tts_handler.py: the test a partial must pass to count as speech
PiperDetects(text) == Truthy(text) /\ Len(Strip(text)) > 0

\* tts_handler.py, _monitor_barge_in: one pass of the loop: stop_event, the lock,
\* the startup buffer, then the poll
PiperMonitorLoop(s) ==
    /\ variant = "piper"
    /\ mon[s].pc = "loop"
    /\ IF stop_event
       THEN /\ mon' = [mon EXCEPT ![s] = MonDone]
            /\ UNCHANGED <<last_seen_realtime_text, confirmLog, engine>>
       ELSE /\ state_lock = "free"
            /\ ~(mon[s].elapsed < tts_startup_buffer)
            /\ MonitorPoll(s, "piper", PiperDetects(realtime_text),
                           piper_min_consecutive)
    /\ UNCHANGED <<envVars, is_playing, barge_in_detected, stop_event, state_lock,
                   is_barge_in_enabled, stream_is_playing, callVars, play, engine>>
    /\ UNCHANGED mainVars

\* tts_handler.py, _monitor_barge_in: with self.state_lock:
\* self.barge_in_detected = True; self.stop_event.set(); break
PiperMonitorConfirm(s) ==
    /\ variant = "piper"
    /\ mon[s].pc = "confirm"
    /\ state_lock = "free"
    /\ barge_in_detected' = TRUE
    /\ stop_event' = TRUE
    /\ mon' = [mon EXCEPT ![s] = [MonIdle EXCEPT !.pc = "confirmed"]]
    /\ call' = [call EXCEPT !.flagged = TRUE]
    /\ UNCHANGED <<envVars, is_playing, state_lock, is_barge_in_enabled,
                   last_seen_realtime_text, stream_is_playing, tpc, sessions, stops,
                   play, confirmLog, engine>>
    /\ UNCHANGED mainVars

\* --------------------------- tts_handler_optimized.py, SystemEngine path
\* speak and _speak_system_engine: the flag, the STT buffer and
\* last_seen_realtime_text are reset and the playback thread started
SystemSpeak ==
    /\ variant = "system"
    /\ tpc["main"] = "idle"
    /\ sessions < MaxSessions
    /\ \E e \in BOOLEAN : is_barge_in_enabled' = e
    /\ realtime_text' = EmptyText
    /\ last_seen_realtime_text' = EmptyText
    /\ call' = CallIdle
    /\ sessions' = sessions + 1
    /\ play' = [play EXCEPT ![sessions + 1] = [pc |-> "start"]]
    /\ UNCHANGED <<variant, is_playing, barge_in_detected, stop_event, state_lock,
                   stream_is_playing, tpc, stops, mon, confirmLog, engine>>
    /\ UNCHANGED mainVars

\* play_audio: with self.state_lock: is_playing = True; stop_event.clear();
\* the monitor thread is started
SystemPlayBegin(s) ==
    /\ variant = "system"
    /\ play[s].pc = "start"
    /\ state_lock = "free"
    /\ is_playing' = TRUE
    /\ stop_event' = FALSE
    /\ mon' = [mon EXCEPT ![s] = [MonIdle EXCEPT !.pc = "start"]]
    /\ play' = [play EXCEPT ![s].pc = "feed"]
    /\ UNCHANGED <<envVars, barge_in_detected, state_lock, is_barge_in_enabled,
                   last_seen_realtime_text, stream_is_playing, callVars, confirmLog, engine>>
    /\ UNCHANGED mainVars

\* play_audio: stream.feed(text); stream.play_async(); finally:
\* with self.state_lock: is_playing = False; stop_event.clear()
SystemPlayAsync(s) ==
    /\ variant = "system"
    /\ play[s].pc = "feed"
    /\ state_lock = "free"
    /\ stream_is_playing' = TRUE
    /\ is_playing' = FALSE
    /\ stop_event' = FALSE
    /\ play' = [play EXCEPT ![s].pc = "done"]
    /\ UNCHANGED <<envVars, barge_in_detected, state_lock, is_barge_in_enabled,
                   last_seen_realtime_text, callVars, mon, confirmLog, engine>>
    /\ UNCHANGED mainVars

\* tts_handler_optimized.py: the test a partial must pass to count as speech
SystemDetects(text) == Truthy(text) /\ Len(text) > barge_in_sensitivity

\* tts_handler_optimized.py, _monitor_barge_in: one pass of the loop:
\* stop_event, is_playing under the lock, the startup buffer, then the poll
SystemMonitorLoop(s) ==
    /\ variant = "system"
    /\ mon[s].pc = "loop"
    /\ IF stop_event
       THEN /\ mon' = [mon EXCEPT ![s] = MonDone]
            /\ UNCHANGED <<last_seen_realtime_text, confirmLog, engine>>
       ELSE /\ state_lock = "free"
            /\ IF ~is_playing
               THEN /\ mon' = [mon EXCEPT ![s] = MonDone]
                    /\ UNCHANGED <<last_seen_realtime_text, confirmLog, engine>>
               ELSE /\ ~(mon[s].elapsed < tts_startup_buffer)
                    /\ MonitorPoll(s, "system", SystemDetects(realtime_text),
                                   system_min_consecutive)
    /\ UNCHANGED <<envVars, is_playing, barge_in_detected, stop_event, state_lock,
                   is_barge_in_enabled, stream_is_playing, callVars, play, engine>>
    /\ UNCHANGED mainVars

\* tts_handler_optimized.py, _monitor_barge_in: with self.state_lock:
\* self.barge_in_detected = True; self.stop_event.set(); self.stream.stop(); break
SystemMonitorConfirm(s) ==
    /\ variant = "system"
    /\ mon[s].pc = "confirm"
    /\ state_lock = "free"
    /\ barge_in_detected' = TRUE
    /\ stop_event' = TRUE
    /\ stream_is_playing' = FALSE
    /\ mon' = [mon EXCEPT ![s] = [MonIdle EXCEPT !.pc = "confirmed"]]
    /\ call' = [call EXCEPT !.flagged = TRUE]
    /\ UNCHANGED <<envVars, is_playing, state_lock, is_barge_in_enabled,
                   last_seen_realtime_text, tpc, sessions, stops, play, confirmLog,
                   engine>>
    /\ UNCHANGED mainVars

\* ------------------- tts_handler_optimized.py and the engine: Cartesia
\* CartesiaTTSEngine.stop_playback: stop_event.set(); "STOP" is put on the queue
\* (a full queue is cleared first); state = STOPPED
EngineStopped(e) ==
    [e EXCEPT !.stop_event = TRUE,
              !.audio_queue = IF Len(@) < audio_queue_maxsize
                              THEN Append(@, "STOP") ELSE <<"STOP">>,
              !.state = "STOPPED"]

\* a callback that takes a partial of any length
CallbackDetects_any(text) ==
    /\ is_barge_in_enabled
    /\ Truthy(text)
    /\ text # last_seen_realtime_text

\* _check_barge_in_status: the test a partial must pass
CallbackDetects(text) ==
    /\ is_barge_in_enabled
    /\ Truthy(text)
    /\ Len(text) >= barge_in_sensitivity
    /\ text # last_seen_realtime_text

\* _check_barge_in_status returned True: what it has set
CallbackConfirms ==
    /\ barge_in_detected' = TRUE
    /\ last_seen_realtime_text' = realtime_text
    /\ confirmLog' = Confirmation("cartesia", realtime_text, engine.heard)

\* the history after a callback that read the transcript
CallbackHeard == engine.heard \/ (is_barge_in_enabled /\ Present(realtime_text))

\* speak and _speak_cartesia up to the stop of the previous playback: the flag,
\* the STT buffer and last_seen_realtime_text are reset, was_playing is read
CartesiaSpeak ==
    /\ variant = "cartesia"
    /\ tpc["main"] = "idle"
    /\ sessions < MaxSessions
    /\ state_lock = "free"
    /\ \E e \in BOOLEAN : is_barge_in_enabled' = e
    /\ realtime_text' = EmptyText
    /\ last_seen_realtime_text' = EmptyText
    /\ call' = CallIdle
    /\ tpc' = [tpc EXCEPT !["main"] = IF is_playing THEN "cartesia_stop"
                                      ELSE "cartesia_start"]
    /\ UNCHANGED <<variant, is_playing, barge_in_detected, stop_event, state_lock,
                   stream_is_playing, sessions, stops, play, mon, confirmLog, engine>>
    /\ UNCHANGED mainVars

\* _speak_cartesia: cartesia_engine.stop() is run on the loop, then 0.1 s of sleep
CartesiaSpeakStop ==
    /\ tpc["main"] = "cartesia_stop"
    /\ engine' = EngineStopped(engine)
    /\ tpc' = [tpc EXCEPT !["main"] = "cartesia_start"]
    /\ UNCHANGED <<envVars, flagVars, stream_is_playing, call, sessions, stops, play,
                   mon, confirmLog>>
    /\ UNCHANGED mainVars

\* _speak_cartesia: synthesize_and_play is scheduled; with self.state_lock:
\* is_playing = True; barge_in_detected = False; cartesia_future = future;
\* the monitor_completion thread is started
CartesiaSpeakStart ==
    /\ tpc["main"] = "cartesia_start"
    /\ state_lock = "free"
    /\ sessions' = sessions + 1
    /\ is_playing' = TRUE
    /\ barge_in_detected' = FALSE
    /\ engine' = [engine EXCEPT !.task[sessions + 1] = [TaskIdle EXCEPT !.pc = "queued"],
                                !.watch[sessions + 1] = "waiting",
                                !.future = sessions + 1,
                                !.heard = FALSE]
    /\ tpc' = [tpc EXCEPT !["main"] = "idle"]
    /\ UNCHANGED <<envVars, stop_event, state_lock, is_barge_in_enabled,
                   last_seen_realtime_text, stream_is_playing, call, stops, play, mon,
                   confirmLog>>
    /\ UNCHANGED mainVars

\* synthesize_and_play: stop_event.clear(); state = PLAYING; the queue is cleared;
\* _stream_audio_from_websocket begins: state = PLAYING, start_time, the request
EngineReset(e, s) ==
    [e EXCEPT !.stop_event = FALSE,
              !.state = "PLAYING",
              !.audio_queue = << >>,
              !.task[s] = [pc |-> "stream", left |-> MaxChunks, elapsed |-> 0]]

\* synthesize_and_play starts on the loop: a playback that is not IDLE is
\* stopped and 0.05 s slept; else the reset follows at once
SynthesizeBegin(s) ==
    /\ engine.task[s].pc = "queued"
    /\ engine' = IF engine.state # "IDLE"
                 THEN [EngineStopped(engine) EXCEPT !.task[s].pc = "cleanup"]
                 ELSE EngineReset(engine, s)
    /\ UNCHANGED <<envVars, flagVars, stream_is_playing, callVars, play, mon,
                   confirmLog>>
    /\ UNCHANGED mainVars

\* synthesize_and_play after the cleanup pause
SynthesizeReset(s) ==
    /\ engine.task[s].pc = "cleanup"
    /\ engine' = EngineReset(engine, s)
    /\ UNCHANGED <<envVars, flagVars, stream_is_playing, callVars, play, mon,
                   confirmLog>>
    /\ UNCHANGED mainVars

\* _stream_audio_from_websocket: a chunk arrives: stop_event, the callback,
\* then the blocking put
StreamChunk(s) ==
    /\ engine.task[s].pc = "stream"
    /\ engine.task[s].left > 0
    /\ IF engine.stop_event
       THEN /\ engine' = [engine EXCEPT !.task[s].left = 0]
            /\ UNCHANGED <<barge_in_detected, last_seen_realtime_text, confirmLog>>
       ELSE IF CallbackDetects(realtime_text)
       THEN /\ state_lock = "free"
            /\ CallbackConfirms
            /\ engine' = [engine EXCEPT !.stop_event = TRUE, !.task[s].left = 0]
       ELSE /\ Len(engine.audio_queue) < audio_queue_maxsize
            /\ engine' = [engine EXCEPT !.audio_queue = Append(@, "audio"),
                                        !.task[s].left = @ - 1,
                                        !.heard = CallbackHeard]
            /\ UNCHANGED <<barge_in_detected, last_seen_realtime_text, confirmLog>>
    /\ UNCHANGED <<envVars, is_playing, stop_event, state_lock, is_barge_in_enabled,
                   stream_is_playing, callVars, play, mon>>
    /\ UNCHANGED mainVars

\* _stream_audio_from_websocket after the loop: audio_queue.put(None)
StreamEnd(s) ==
    /\ engine.task[s].pc = "stream"
    /\ engine.task[s].left = 0
    /\ Len(engine.audio_queue) < audio_queue_maxsize
    /\ engine' = [engine EXCEPT !.audio_queue = Append(@, "None"),
                                !.task[s].pc = "ending"]
    /\ UNCHANGED <<envVars, flagVars, stream_is_playing, callVars, play, mon,
                   confirmLog>>
    /\ UNCHANGED mainVars

\* synthesize_and_play after the stream: audio_queue.put(None); return True
SynthesizeEnd(s) ==
    /\ engine.task[s].pc = "ending"
    /\ Len(engine.audio_queue) < audio_queue_maxsize
    /\ engine' = [engine EXCEPT !.audio_queue = Append(@, "None"),
                                !.task[s] = [TaskIdle EXCEPT !.pc = "done"]]
    /\ UNCHANGED <<envVars, flagVars, stream_is_playing, callVars, play, mon,
                   confirmLog>>
    /\ UNCHANGED mainVars

\* _audio_consumer_loop: one item is taken from the queue and handled
AudioConsumer ==
    /\ variant = "cartesia"
    /\ engine.audio_queue # << >>
    /\ LET item == Head(engine.audio_queue)
           rest == Tail(engine.audio_queue)
       IN  IF item = "None"
           THEN /\ engine' = [engine EXCEPT !.audio_queue = rest, !.state = "IDLE"]
                /\ UNCHANGED <<barge_in_detected, last_seen_realtime_text, confirmLog>>
           ELSE IF item = "STOP"
           THEN /\ engine' = [engine EXCEPT !.audio_queue = << >>, !.state = "STOPPED"]
                /\ UNCHANGED <<barge_in_detected, last_seen_realtime_text, confirmLog>>
           ELSE IF CallbackDetects(realtime_text)
           THEN /\ state_lock = "free"
                /\ CallbackConfirms
                /\ engine' = [engine EXCEPT !.stop_event = TRUE, !.audio_queue = << >>,
                                            !.state = "STOPPED"]
           ELSE IF engine.stop_event
           THEN /\ engine' = [engine EXCEPT !.audio_queue = << >>, !.state = "STOPPED",
                                            !.heard = CallbackHeard]
                /\ UNCHANGED <<barge_in_detected, last_seen_realtime_text, confirmLog>>
           ELSE /\ engine' = [engine EXCEPT !.audio_queue = rest,
                                            !.heard = CallbackHeard]
                /\ UNCHANGED <<barge_in_detected, last_seen_realtime_text, confirmLog>>
    /\ UNCHANGED <<envVars, is_playing, stop_event, state_lock, is_barge_in_enabled,
                   stream_is_playing, callVars, play, mon>>
    /\ UNCHANGED mainVars

\* monitor_completion: future.result() has returned; finally:
\* with self.state_lock: is_playing = False; cartesia_future = None
MonitorCompletion(s) ==
    /\ engine.watch[s] = "waiting"
    /\ engine.task[s].pc = "done"
    /\ state_lock = "free"
    /\ is_playing' = FALSE
    /\ engine' = [engine EXCEPT !.watch[s] = "done", !.future = 0]
    /\ UNCHANGED <<envVars, barge_in_detected, stop_event, state_lock,
                   is_barge_in_enabled, last_seen_realtime_text, stream_is_playing,
                   callVars, play, mon, confirmLog>>
    /\ UNCHANGED mainVars

\* ------------------------------------------------------------ the system
Next ==
    \/ Tick
    \/ OnRealtimeUpdate
    \/ StreamFinishes
    \/ PiperSpeak
    \/ StopPlaybackStream
    \/ \E t \in Callers : StopPlaybackFlag(t)
    \/ WaitCall
    \/ WaitPoll
    \/ \E s \in Sessions : PiperPlayBegin(s)
    \/ \E s \in Sessions : PiperPlayAsync(s)
    \/ \E s \in Sessions : PiperPlayFinally(s)
    \/ \E s \in Sessions : MonitorStart(s)
    \/ \E s \in Sessions : PiperMonitorLoop(s)
    \/ \E s \in Sessions : PiperMonitorConfirm(s)
    \/ SystemSpeak
    \/ \E s \in Sessions : SystemPlayBegin(s)
    \/ \E s \in Sessions : SystemPlayAsync(s)
    \/ \E s \in Sessions : SystemMonitorLoop(s)
    \/ \E s \in Sessions : SystemMonitorConfirm(s)
    \/ CartesiaSpeak
    \/ CartesiaSpeakStop
    \/ CartesiaSpeakStart
    \/ \E s \in Sessions : SynthesizeBegin(s)
    \/ \E s \in Sessions : SynthesizeReset(s)
    \/ \E s \in Sessions : StreamChunk(s)
    \/ \E s \in Sessions : StreamEnd(s)
    \/ \E s \in Sessions : SynthesizeEnd(s)
    \/ AudioConsumer
    \/ \E s \in Sessions : MonitorCompletion(s)

Spec == Init /\ [][Next]_vars

\* ----------------------------------------------- main.py: the coordinator
\* an add_turn that does not count the record
add_turn_uncounted(cm, role, content) ==
    [cm EXCEPT !.history = Append(cm.history, <<role, content>>),
               !.appended = Append(@, <<role, content>>)]

\* Python's list[-k:] for k >= 0: the last k elements; the whole list when
\* k is 0 (-0 is 0, so the slice is list[0:]) or k is not less than len(list)
LastSlice(h, k) ==
    IF k = 0 \/ k >= Len(h) THEN h ELSE SubSeq(h, Len(h) - k + 1, Len(h))

\* ConversationManager.add_turn
add_turn(cm, role, content) ==
    LET h == Append(cm.history, <<role, content>>)
    IN  [cm EXCEPT
           !.history = IF Len(h) > cm.max_history
                       THEN <<h[1]>> \o LastSlice(h, cm.max_history - 1)
                       ELSE h,
           !.appended = Append(@, <<role, content>>),
           !.turn_count = @ + 1]

\* a record_error that counts the error twice
record_error_twice(cm) == [cm EXCEPT !.error_count = @ + 2]

\* ConversationManager.record_error
record_error(cm) == [cm EXCEPT !.error_count = @ + 1]

\* ConversationManager.reset_errors
reset_errors(cm) == [cm EXCEPT !.error_count = 0]

\* a should_abort that never sees the ceiling
should_abort_never(cm) == FALSE

\* ConversationManager.should_abort
should_abort(cm) == cm.error_count >= max_consecutive_errors

\* how a call of the language model can go
Generations == {"answered", "empty", "failed"}

\* LLMHandler.process_text_with_history: the answer, or, when the request
\* raised (an HTTP error, a timeout of the connection), one of the error
\* responses
process_text_with_history(g) ==
    IF g = "failed" THEN ErrorResponse
    ELSE IF g = "empty" THEN EmptyText
    ELSE Reply

\* handle_conversation_turn: polling_text and len(polling_text.strip()) > 2
SpeechDetected(text) == Truthy(text) /\ Len(Strip(text)) > 2

\* handle_conversation_turn: user_text.strip().lower() in [quit, exit, ...]
IsExit(text) == Lower(Strip(text)) \in ExitPhrases

\* handle_conversation_turn: not response or len(response.strip()) < 3
InvalidResponse(response) == ~Truthy(response) \/ Len(Strip(response)) < 3

\* the coordinator is about to read polling_text
ReadsPolling == turn.pc \in {"listen", "barge_text", "barge_final"}

\* STTHandler._polling_worker: one cycle stores the stripped transcription, or
\* "" when there was none
PollingWorker ==
    /\ stt.workers > 0
    /\ stt.polling_active
    /\ stt.is_listening
    /\ ReadsPolling
    /\ \E u \in Utterances :
          /\ Strip(u) # polling_text
          /\ polling_text' = Strip(u)
    /\ turn' = [turn EXCEPT !.consumed = FALSE]
    /\ UNCHANGED <<envVars, flagVars, stream_is_playing, callVars, play, mon,
                   confirmLog, engine, stt, conversation_manager>>

\* the coordinator calls tts_handler.speak(..., enable_barge_in) and goes on
\* to `to` when the call returns
Speaks(to, enable_barge_in) ==
    /\ Speak(enable_barge_in)
    /\ turn' = IF tpc'["main"] = "idle" THEN [turn EXCEPT !.pc = to] ELSE turn
    /\ UNCHANGED <<polling_text, stt, conversation_manager>>

\* the coordinator calls tts_handler.wait_for_completion() and goes on to `to`
\* when it returns: the pass of its loop that returns.  The playback thread is
\* running when speak() returns (Thread.start() waits for it to be started);
\* under main() the runs followed are those where it has entered play_audio by
\* the coordinator's first look.  The other order is in Spec (WaitCall, WaitPoll).
Waits(to) ==
    /\ play[Current].pc # "start"
    /\ state_lock = "free"
    /\ WaitOutcome # "none"
    /\ call' = [call EXCEPT !.result = WaitOutcome]
    /\ turn' = [turn EXCEPT !.pc = to]
    /\ UNCHANGED <<envVars, flagVars, stream_is_playing, tpc, sessions, stops, play,
                   mon, confirmLog, engine, polling_text, stt, conversation_manager>>

\* a loop condition that never ends the session
MoreTurns_always(loop_count) == TRUE

\* main(): while loop_count < max_turns
MoreTurns(loop_count) == loop_count < max_turns

\* main(): while loop_count < max_turns: loop_count += 1; the turn is entered
MainLoop ==
    /\ turn.pc = "loop"
    /\ turn' = IF MoreTurns(turn.loop_count)
               THEN [TurnIdle EXCEPT
                       !.pc = "listen",
                       !.loop_count = turn.loop_count + 1,
                       !.count_at_start = conversation_manager.turn_count,
                       !.consumed = turn.consumed]
               ELSE [turn EXCEPT !.pc = "ended"]
    /\ UNCHANGED <<envVars, flagVars, stream_is_playing, callVars, play, mon,
                   confirmLog, engine, polling_text, stt, conversation_manager>>

\* handle_conversation_turn, step 1: a poll finds speech; the exit check; the
\* User record
TurnHeard ==
    /\ turn.pc = "listen"
    /\ SpeechDetected(polling_text)
    /\ LET user_text == Strip(polling_text)
       IN  IF IsExit(user_text)
           THEN /\ turn' = [turn EXCEPT !.pc = "ended", !.user_text = user_text,
                                        !.should_exit = TRUE, !.consumed = TRUE]
                /\ UNCHANGED conversation_manager
           ELSE /\ turn' = [turn EXCEPT !.pc = "generate", !.user_text = user_text,
                                        !.consumed = TRUE]
                /\ conversation_manager' =
                      add_turn(conversation_manager, "User", user_text)
    /\ UNCHANGED <<envVars, flagVars, stream_is_playing, callVars, play, mon,
                   confirmLog, engine, polling_text, stt>>

\* handle_conversation_turn, step 1: max_wait_time runs out with no speech
TurnNoSpeech ==
    /\ turn.pc = "listen"
    /\ ~SpeechDetected(polling_text)
    /\ conversation_manager' = record_error(conversation_manager)
    /\ turn' = [turn EXCEPT !.pc = "loop"]
    /\ UNCHANGED <<envVars, flagVars, stream_is_playing, callVars, play, mon,
                   confirmLog, engine, polling_text, stt>>

\* handle_conversation_turn, step 2: the reply is generated and checked; a
\* fallback replaces an invalid one; the Agent record
TurnGenerate ==
    /\ turn.pc = "generate"
    /\ \E g \in Generations :
          LET answer == process_text_with_history(g)
              response == IF InvalidResponse(answer) THEN FallbackText ELSE answer
              cm == IF InvalidResponse(answer)
                    THEN record_error(conversation_manager)
                    ELSE reset_errors(conversation_manager)
          IN  /\ conversation_manager' = add_turn(cm, "Agent", response)
              /\ turn' = [turn EXCEPT !.pc = "speak", !.response = response,
                                      !.generation = g]
    /\ UNCHANGED <<envVars, flagVars, stream_is_playing, callVars, play, mon,
                   confirmLog, engine, polling_text, stt>>

\* handle_conversation_turn, step 3: tts_handler.speak(response, enable_barge_in=True)
TurnSpeak ==
    /\ turn.pc = "speak"
    /\ Speaks("wait", TRUE)

\* handle_conversation_turn, step 3: completed = tts_handler.wait_for_completion(30.0)
TurnWait ==
    /\ turn.pc = "wait"
    /\ Waits("barge_check")

\* handle_conversation_turn, step 4: if tts_handler.is_barge_in_detected();
\* without a barge-in the turn returns (True, False)
TurnBargeCheck ==
    /\ turn.pc = "barge_check"
    /\ state_lock = "free"
    /\ turn' = [turn EXCEPT !.pc = IF barge_in_detected THEN "barge_text" ELSE "loop"]
    /\ UNCHANGED <<envVars, flagVars, stream_is_playing, callVars, play, mon,
                   confirmLog, engine, polling_text, stt, conversation_manager>>

\* handle_conversation_turn, step 4: interruption_text = get_barge_in_text();
\* without a text of more than 2 characters the turn returns (True, False)
TurnBargeText ==
    /\ turn.pc = "barge_text"
    /\ turn' = IF Truthy(polling_text) /\ Len(polling_text) > 2
               THEN [turn EXCEPT !.pc = "barge_final", !.user_text = polling_text,
                                 !.consumed = TRUE]
               ELSE [turn EXCEPT !.pc = "loop"]
    /\ UNCHANGED <<envVars, flagVars, stream_is_playing, callVars, play, mon,
                   confirmLog, engine, polling_text, stt, conversation_manager>>

\* handle_conversation_turn, step 4, after the 0.3 s: final_text replaces the
\* interruption if it is longer; the User record
TurnBargeFinal ==
    /\ turn.pc = "barge_final"
    /\ LET final_text == polling_text
           interruption_text ==
               IF Truthy(final_text) /\ Len(final_text) > Len(turn.user_text)
               THEN final_text ELSE turn.user_text
       IN  /\ conversation_manager' =
                 add_turn(conversation_manager, "User", interruption_text)
           /\ turn' = [turn EXCEPT !.pc = "barge_generate",
                                   !.user_text = interruption_text,
                                   !.consumed =
                                       @ \/ interruption_text = final_text]
    /\ UNCHANGED <<envVars, flagVars, stream_is_playing, callVars, play, mon,
                   confirmLog, engine, polling_text, stt>>

\* handle_conversation_turn, step 4: the reply to the interruption is
\* generated (it is not checked); the Agent record
TurnBargeGenerate ==
    /\ turn.pc = "barge_generate"
    /\ \E g \in Generations :
          LET interruption_response == process_text_with_history(g)
          IN  /\ conversation_manager' =
                    add_turn(conversation_manager, "Agent", interruption_response)
              /\ turn' = [turn EXCEPT !.pc = "barge_speak",
                                      !.response = interruption_response,
                                      !.generation = g]
    /\ UNCHANGED <<envVars, flagVars, stream_is_playing, callVars, play, mon,
                   confirmLog, engine, polling_text, stt>>

\* handle_conversation_turn, step 4: tts_handler.speak(interruption_response,
\* enable_barge_in=True)
TurnBargeSpeak ==
    /\ turn.pc = "barge_speak"
    /\ Speaks("barge_wait", TRUE)

\* handle_conversation_turn, step 4: tts_handler.wait_for_completion(30.0);
\* the turn returns (True, False)
TurnBargeWait ==
    /\ turn.pc = "barge_wait"
    /\ Waits("loop")

\* handle_conversation_turn: a statement of the turn raises (the first is the
\* print of step 1); except Exception: record_error(); should_abort()
TurnRaises ==
    /\ turn.pc = "listen"
    /\ conversation_manager' = record_error(conversation_manager)
    /\ turn' = IF should_abort(conversation_manager')
               THEN [turn EXCEPT !.pc = "ended", !.raised = TRUE,
                                 !.should_exit = TRUE]
               ELSE [turn EXCEPT !.pc = "loop", !.raised = TRUE]
    /\ UNCHANGED <<envVars, flagVars, stream_is_playing, callVars, play, mon,
                   confirmLog, engine, polling_text, stt>>

\* main() at the head of its loop, with the handler main.py imports
\* (tts_handler.py): the system prompt and the welcome are recorded, and the
\* welcome, spoken with barge-in disabled, has played out.
\* stop_playback() inside speak() is absent: speak() holds state_lock when it
\* calls it, so the call never gets past `with self.state_lock:`.
MainInit ==
    /\ variant = "piper"
    /\ HandlerInit
    /\ stt = SttPolling
    /\ is_barge_in_enabled = FALSE
    /\ conversation_manager =
          add_turn(add_turn(ManagerInit, "System", SystemPrompt), "Agent", Welcome)
    /\ turn = [TurnIdle EXCEPT !.pc = "loop"]

MainNext ==
    \/ Tick
    \/ OnRealtimeUpdate
    \/ StreamFinishes
    \/ PollingWorker
    \/ MainLoop
    \/ TurnHeard
    \/ TurnNoSpeech
    \/ TurnGenerate
    \/ TurnSpeak
    \/ TurnWait
    \/ TurnBargeCheck
    \/ TurnBargeText
    \/ TurnBargeFinal
    \/ TurnBargeGenerate
    \/ TurnBargeSpeak
    \/ TurnBargeWait
    \/ TurnRaises
    \/ \E s \in Sessions : PiperPlayBegin(s)
    \/ \E s \in Sessions : PiperPlayAsync(s)
    \/ \E s \in Sessions : PiperPlayFinally(s)
    \/ \E s \in Sessions : MonitorStart(s)
    \/ \E s \in Sessions : PiperMonitorLoop(s)
    \/ \E s \in Sessions : PiperMonitorConfirm(s)

MainSpec == MainInit /\ [][MainNext]_vars

\* the statements of main() and handle_conversation_turn that run without an
\* answer from outside the process: the loop, the polls of step 1 and their
\* max_wait_time, speak(), wait_for_completion() and the barge-in handling.
\* The two requests to the language model are not among them.
CoordinatorStep ==
    \/ MainLoop
    \/ TurnHeard
    \/ TurnNoSpeech
    \/ TurnSpeak
    \/ TurnWait
    \/ TurnBargeCheck
    \/ TurnBargeText
    \/ TurnBargeFinal
    \/ TurnBargeSpeak
    \/ TurnBargeWait

\* the playback thread and the monitor thread of session s
SessionStep(s) ==
    \/ PiperPlayBegin(s)
    \/ PiperPlayAsync(s)
    \/ PiperPlayFinally(s)
    \/ MonitorStart(s)
    \/ PiperMonitorLoop(s)
    \/ PiperMonitorConfirm(s)

\* main() under a scheduler that runs every thread that can run, with time
\* passing and the audio device playing its stream to the end.  Nothing is
\* assumed of the user (partials, utterances), of the language model
\* (requests.post is called without a timeout) or of exceptions.
FairMainSpec ==
    /\ MainSpec
    /\ SF_vars(CoordinatorStep)
    /\ WF_vars(Tick)
    /\ WF_vars(StreamFinishes)
    /\ \A s \in Sessions : WF_vars(SessionStep(s))

\* ------------------------------------- ConversationManager on its own
\* the content of the k-th record: a text of k characters, so that no two
\* records are equal
Numeral(k) == [i \in 1..k |-> "i"]

\* a caller appends one more record
HistoryAdd ==
    /\ conversation_manager.turn_count <
          conversation_manager.max_history + ExtraRecords
    /\ \E role \in {"User", "Agent"} :
          conversation_manager' =
             add_turn(conversation_manager, role,
                      Numeral(conversation_manager.turn_count + 1))
    /\ UNCHANGED <<envVars, flagVars, stream_is_playing, callVars, play, mon,
                   confirmLog, engine, polling_text, stt, turn>>

\* a ConversationManager of any max_history from 1 on, nothing appended yet
HistoryInit ==
    /\ variant = "piper"
    /\ HandlerInit
    /\ stt = SttIdle
    /\ is_barge_in_enabled = TRUE
    /\ turn = TurnIdle
    /\ \E n \in 1..MaxHistory : conversation_manager = ConversationManager(n)

HistoryNext == HistoryAdd

HistorySpec == HistoryInit /\ [][HistoryNext]_vars

\* ------------------------------- tts_handler.py with a failing engine
\* play_audio: stream.feed(text) raises, or stream.play_async() and then the
\* fallback stream.play() raise: the except branches log the error; finally:
\* with self.state_lock: is_playing = False; stop_event.clear().
\* "failed" is history: the session ended on an exception
PiperPlayError(s) ==
    /\ variant = "piper"
    /\ play[s].pc = "feed"
    /\ state_lock = "free"
    /\ is_playing' = FALSE
    /\ stop_event' = FALSE
    /\ play' = [play EXCEPT ![s].pc = "failed"]
    /\ UNCHANGED <<envVars, barge_in_detected, state_lock, is_barge_in_enabled,
                   last_seen_realtime_text, stream_is_playing, callVars, mon,
                   confirmLog, engine, mainVars>>

\* the Piper handler, called by a free caller, with an engine that can fail
ErrorInit == Init /\ variant = "piper"

ErrorNext ==
    \/ Tick
    \/ OnRealtimeUpdate
    \/ StreamFinishes
    \/ PiperSpeak
    \/ WaitCall
    \/ WaitPoll
    \/ \E s \in Sessions : PiperPlayBegin(s)
    \/ \E s \in Sessions : PiperPlayAsync(s)
    \/ \E s \in Sessions : PiperPlayFinally(s)
    \/ \E s \in Sessions : PiperPlayError(s)
    \/ \E s \in Sessions : MonitorStart(s)
    \/ \E s \in Sessions : PiperMonitorLoop(s)
    \/ \E s \in Sessions : PiperMonitorConfirm(s)

ErrorSpec == ErrorInit /\ [][ErrorNext]_vars

\* --------------------------- CartesiaTTSEngine on its own, by statement
\* The engine without a handler: barge_in_callback is None, callers start
\* synthesize_and_play() on the event loop and call stop_playback() from any
\* thread.  The timed puts of the producer can run out here.

\* a put with a timeout runs out only while the queue is full
QueueFull(e) == Len(e.audio_queue) >= audio_queue_maxsize

\* a producer that gives a frame up when its first put runs out
LastAttempt_first(attempt) == attempt >= 1

\* _stream_audio_from_websocket: put(timeout=1.0), then put(timeout=2.0),
\* then the frame is dropped
LastAttempt(attempt) == attempt >= 2

\* one synthesize_and_play call.  dropped and kept_after_drop are history:
\* frames given up, and whether a frame was queued after one was given up
StreamIdle == [pc |-> "none", left |-> 0, attempt |-> 0, dropped |-> 0,
               kept_after_drop |-> FALSE]

\* CartesiaTTSEngine.__init__, the consumer thread running.  item is what the
\* consumer took from the queue and has not handled yet.  History: stop_seen
\* is stop_event at the time the item was taken, wrote_cancelled whether a
\* frame taken while stop_event was set has been written, stop_calls and
\* started count the calls, wrote_stale whether a frame of an earlier session
\* was written after the latest session had begun to stream, lost_new whether
\* the consumer threw away a frame of the latest session although
\* stop_playback() was never called on it.
EngineAlone ==
    [state |-> "IDLE", stop_event |-> FALSE, audio_queue |-> << >>,
     task |-> [s \in Sessions |-> StreamIdle],
     started |-> 0, stop_calls |-> 0,
     item |-> "nothing", stop_seen |-> FALSE, wrote_cancelled |-> FALSE,
     wrote_stale |-> FALSE, lost_new |-> FALSE]

\* synthesize_and_play: stop_event.clear(); state = PLAYING; the queue is
\* cleared; _stream_audio_from_websocket begins: state = PLAYING, the request
StreamReset(e, s) ==
    [e EXCEPT !.stop_event = FALSE,
              !.state = "PLAYING",
              !.audio_queue = << >>,
              !.task[s] = [StreamIdle EXCEPT !.pc = "stream", !.left = EngineChunks]]

\* synthesize_and_play is entered: a playback that is not IDLE is stopped and
\* 0.05 s slept; else the reset follows at once
EngineSynthesize ==
    /\ engine.started < MaxSessions
    /\ LET s == engine.started + 1
           e == [engine EXCEPT !.started = s]
       IN  engine' = IF engine.state # "IDLE"
                     THEN [EngineStopped(e) EXCEPT !.task[s].pc = "cleanup"]
                     ELSE StreamReset(e, s)
    /\ UNCHANGED <<envVars, flagVars, stream_is_playing, callVars, play, mon,
                   confirmLog, mainVars>>

\* synthesize_and_play after the cleanup pause
EngineSynthesizeReset(s) ==
    /\ engine.task[s].pc = "cleanup"
    /\ engine' = StreamReset(engine, s)
    /\ UNCHANGED <<envVars, flagVars, stream_is_playing, callVars, play, mon,
                   confirmLog, mainVars>>

\* _stream_audio_from_websocket: a chunk arrives; stop_event ends the stream,
\* else the chunk goes to its first put
ProducerChunk(s) ==
    /\ engine.task[s].pc = "stream"
    /\ engine.task[s].left > 0
    /\ engine' = IF engine.stop_event
                 THEN [engine EXCEPT !.task[s].left = 0]
                 ELSE [engine EXCEPT !.task[s].pc = "put", !.task[s].attempt = 1]
    /\ UNCHANGED <<envVars, flagVars, stream_is_playing, callVars, play, mon,
                   confirmLog, mainVars>>

\* the audio_bytes of a chunk that the stream of session s received
Frame(s) == "audio" \o ToString(s)

\* what the queue holds besides the None and "STOP" markers
IsFrame(item) == item \notin {"None", "STOP", "nothing"}

\* audio_queue.put(audio_bytes, timeout=...) finds room
ProducerPut(s) ==
    /\ engine.task[s].pc = "put"
    /\ ~QueueFull(engine)
    /\ engine' = [engine EXCEPT
                    !.audio_queue = Append(@, Frame(s)),
                    !.task[s] = [@ EXCEPT !.pc = "stream", !.left = @ - 1,
                                          !.attempt = 0,
                                          !.kept_after_drop =
                                              @ \/ engine.task[s].dropped > 0]]
    /\ UNCHANGED <<envVars, flagVars, stream_is_playing, callVars, play, mon,
                   confirmLog, mainVars>>

\* audio_queue.put(audio_bytes, timeout=...) raises queue.Full: the second put
\* follows the first; after the second the chunk is dropped
ProducerTimeout(s) ==
    /\ engine.task[s].pc = "put"
    /\ QueueFull(engine)
    /\ engine' = IF LastAttempt(engine.task[s].attempt)
                 THEN [engine EXCEPT
                         !.task[s] = [@ EXCEPT !.pc = "stream", !.left = @ - 1,
                                               !.attempt = 0, !.dropped = @ + 1]]
                 ELSE [engine EXCEPT !.task[s].attempt = @ + 1]
    /\ UNCHANGED <<envVars, flagVars, stream_is_playing, callVars, play, mon,
                   confirmLog, mainVars>>

\* _stream_audio_from_websocket after the loop: audio_queue.put(None,
\* timeout=1.0); queue.Full goes to the except branch
ProducerEnd(s) ==
    /\ engine.task[s].pc = "stream"
    /\ engine.task[s].left = 0
    /\ engine' = IF QueueFull(engine)
                 THEN [engine EXCEPT !.task[s].pc = "raise"]
                 ELSE [engine EXCEPT !.audio_queue = Append(@, "None"),
                                     !.task[s].pc = "ending"]
    /\ UNCHANGED <<envVars, flagVars, stream_is_playing, callVars, play, mon,
                   confirmLog, mainVars>>

\* _stream_audio_from_websocket, except: put(None, timeout=0.5) is tried, the
\* exception is raised again; synthesize_and_play, except: state = IDLE;
\* return False
ProducerRaise(s) ==
    /\ engine.task[s].pc = "raise"
    /\ engine' = [engine EXCEPT
                    !.audio_queue = IF QueueFull(engine) THEN @ ELSE Append(@, "None"),
                    !.state = "IDLE",
                    !.task[s].pc = "failed"]
    /\ UNCHANGED <<envVars, flagVars, stream_is_playing, callVars, play, mon,
                   confirmLog, mainVars>>

\* synthesize_and_play after the stream: audio_queue.put(None, timeout=0.5);
\* return True; queue.Full goes to except: state = IDLE; return False
EngineSynthesizeEnd(s) ==
    /\ engine.task[s].pc = "ending"
    /\ engine' = IF QueueFull(engine)
                 THEN [engine EXCEPT !.state = "IDLE", !.task[s].pc = "failed"]
                 ELSE [engine EXCEPT !.audio_queue = Append(@, "None"),
                                     !.task[s].pc = "done"]
    /\ UNCHANGED <<envVars, flagVars, stream_is_playing, callVars, play, mon,
                   confirmLog, mainVars>>

\* CartesiaTTSEngine.stop_playback(), called by any thread
EngineStopPlayback ==
    /\ engine.stop_calls < MaxStops
    /\ engine' = [EngineStopped(engine) EXCEPT !.stop_calls = @ + 1]
    /\ UNCHANGED <<envVars, flagVars, stream_is_playing, callVars, play, mon,
                   confirmLog, mainVars>>

\* _audio_consumer_loop: audio_bytes = self.audio_queue.get(timeout=0.1)
ConsumerGet ==
    /\ engine.item = "nothing"
    /\ engine.audio_queue # << >>
    /\ engine' = [engine EXCEPT !.item = Head(engine.audio_queue),
                                !.audio_queue = Tail(@),
                                !.stop_seen = engine.stop_event]
    /\ UNCHANGED <<envVars, flagVars, stream_is_playing, callVars, play, mon,
                   confirmLog, mainVars>>

\* the latest synthesize_and_play call has cleared the queue and streams
LatestStreams(e) ==
    /\ e.started \in Sessions
    /\ e.task[e.started].pc \notin {"none", "cleanup"}

\* the frame in the consumer's hand was queued by an earlier session
WritesStale(e) ==
    /\ LatestStreams(e)
    /\ e.item # Frame(e.started)

\* the "STOP" branch or the stop_event branch throws away a frame of the
\* latest session, on which stop_playback() was never called
DiscardsLatest(e) ==
    /\ LatestStreams(e)
    /\ e.stop_calls = 0
    /\ \/ e.item = Frame(e.started)
       \/ \E i \in 1..Len(e.audio_queue) : e.audio_queue[i] = Frame(e.started)

\* _audio_consumer_loop: the item is handled: None, "STOP", the stop_event
\* check, audio_stream.write
ConsumerHandle ==
    /\ engine.item # "nothing"
    /\ engine' =
          IF engine.item = "None"
          THEN [engine EXCEPT !.item = "nothing", !.state = "IDLE"]
          ELSE IF engine.item = "STOP" \/ engine.stop_event
          THEN [engine EXCEPT !.item = "nothing", !.audio_queue = << >>,
                              !.state = "STOPPED",
                              !.lost_new = @ \/ DiscardsLatest(engine)]
          ELSE [engine EXCEPT !.item = "nothing",
                              !.wrote_cancelled = @ \/ engine.stop_seen,
                              !.wrote_stale = @ \/ WritesStale(engine)]
    /\ UNCHANGED <<envVars, flagVars, stream_is_playing, callVars, play, mon,
                   confirmLog, mainVars>>

EngineInit ==
    /\ variant = "cartesia"
    /\ HandlerIdle
    /\ engine = EngineAlone
    /\ stt = SttIdle
    /\ is_barge_in_enabled = FALSE
    /\ conversation_manager = ManagerInit
    /\ turn = TurnIdle

EngineNext ==
    \/ EngineSynthesize
    \/ \E s \in Sessions : EngineSynthesizeReset(s)
    \/ \E s \in Sessions : ProducerChunk(s)
    \/ \E s \in Sessions : ProducerPut(s)
    \/ \E s \in Sessions : ProducerTimeout(s)
    \/ \E s \in Sessions : ProducerEnd(s)
    \/ \E s \in Sessions : ProducerRaise(s)
    \/ \E s \in Sessions : EngineSynthesizeEnd(s)
    \/ EngineStopPlayback
    \/ ConsumerGet
    \/ ConsumerHandle

EngineSpec == EngineInit /\ [][EngineNext]_vars

\* ------------------------------------------------------------ properties
\* C1: at most one playback session is streaming at any time.
C1_OneSessionStreams ==
    \A s1, s2 \in Sessions : Streams(s1) /\ Streams(s2) => s1 = s2

\* C2: the state lock is never held across a call that acquires it, nor
\* across a sleep: speak() does not hold it while it is inside
\* stop_playback() or sleeping between its retries.
C2_NoLockAcrossCall ==
    ~(state_lock = "main" /\ tpc["main"] \in {"stop_flag", "speak_sleep"})

\* C3: when stop_playback() was called on the streaming session while a
\* wait_for_completion() was pending, that wait does not report completion.
C3_CancelInterrupts == call.cancelled => call.result # "completed"

\* C4: stop_playback() called on a session that has already ended changes
\* neither barge_in_detected nor stop_event.
C4_StopIsNoOp ==
    [][(/\ tpc["stopper"] = "stop_flag"
        /\ tpc'["stopper"] = "idle"
        /\ stops.found # 0
        /\ stops.found = Current
        /\ play[Current].pc = "done")
       => (barge_in_detected' = barge_in_detected /\ stop_event' = stop_event)]_vars

\* C5, as stated: no detector confirms barge-in on a partial shorter than 2
\* characters.
C5_ShortNeverConfirms == confirmLog.by # "none" => Len(confirmLog.text) >= 2

\* C5, amended: the detectors of tts_handler_optimized.py (the SystemEngine
\* monitor and the Cartesia callback) never confirm barge-in on a partial
\* shorter than 2 characters.
C5_OptimizedNeedsTwoChars ==
    confirmLog.by \in {"system", "cartesia"} => Len(confirmLog.text) >= 2

\* C5: the Cartesia callback has confirmed a barge-in on a partial of exactly 2
\* characters
C5_CallbackConfirmedTwoChars ==
    /\ confirmLog.by = "cartesia"
    /\ Len(confirmLog.text) = 2
    /\ barge_in_detected

\* C6, as stated: no detector confirms barge-in on the first poll that sees a
\* partial.
C6_NeverOnFirstPoll == confirmLog.by # "none" => ~confirmLog.first

\* C6, amended: the monitor of tts_handler_optimized.py does not confirm
\* barge-in on the first poll that sees a partial.
C6_SystemMonitorDebounces == confirmLog.by = "system" => ~confirmLog.first

\* C6: the monitor of tts_handler_optimized.py has confirmed a barge-in
C6_SystemMonitorConfirmed == confirmLog.by = "system" /\ barge_in_detected

\* C7: a poll made while audio streams, past the startup buffer, that reads a
\* partial of at least 2 characters after the previous poll read one too,
\* confirms barge-in.
C7_TwoPollsConfirm ==
    [][\A s \in Sessions :
          (/\ Polling(s)
           /\ stream_is_playing
           /\ mon[s].heard
           /\ PresentLong(last_seen_realtime_text)
           /\ PresentLong(realtime_text)
           /\ mon'[s] # mon[s]
           /\ mon'[s].pc # "done")
          => mon'[s].pc = "confirm"]_vars

\* C8: no detector confirms barge-in while a session's startup buffer of
\* 150 ms is running.
C8_NoEarlyConfirm == ~confirmLog.early

\* C9: a monitor's consecutive_detections never decreases while it polls.
C9_CounterMonotone ==
    [][\A s \in Sessions :
          (mon[s].pc = "loop" /\ mon'[s].pc = "loop")
          => mon'[s].consecutive_detections >= mon[s].consecutive_detections]_vars

\* C10: once a monitor has confirmed barge-in for its session, that session
\* no longer streams.
C10_ConfirmCancels ==
    \A s \in Sessions : mon[s].pc = "confirmed" => ~Streams(s)

\* C11: once the latest session has completed naturally (its play_audio
\* thread has ended, the stream has played out, wait_for_completion() has
\* returned True and nobody has called stop_playback()), no step marks a
\* barge-in.
C11_NoBargeInAfterCompletion ==
    [][(/\ sessions >= 1
        /\ play[Current].pc = "done"
        /\ ~stream_is_playing
        /\ call.result = "completed"
        /\ stops.n = 0
        /\ ~barge_in_detected)
       => ~barge_in_detected']_vars

\* C12: wait_for_completion() does not return True while the audio of the
\* session started by the preceding speak() is still streaming.
C12_CompletedMeansPlayedOut ==
    [][(call.result # "completed" /\ call'.result = "completed")
       => ~stream_is_playing']_vars

\* C13: when is_barge_in_detected() has reported that the session was
\* interrupted, the turn does not return to the loop (to listening) without
\* having recorded the interrupting fragment as a User record and generated
\* a reply to it.
C13_InterruptionIsRecorded ==
    [][turn.pc = "barge_text" => turn'.pc # "loop"]_vars

\* C14: in a turn without barge-in the coordinator's steps occur in the order
\* listening, generating, speaking, waiting, listening: the User record is the
\* last of the history when the reply is generated, the Agent record is the
\* last when playback is started, and when the turn returns it has made
\* exactly two records, the User record and then the Agent record.
C14_UninterruptedTurnOrder ==
    [][LET h == conversation_manager.history
           n == Len(h)
       IN  /\ turn.pc = "listen" => turn'.pc \in {"listen", "generate", "loop", "ended"}
           /\ turn.pc = "generate" => turn'.pc \in {"generate", "speak"}
           /\ turn.pc = "speak" => turn'.pc \in {"speak", "wait"}
           /\ turn.pc = "wait" => turn'.pc \in {"wait", "barge_check"}
           /\ (turn.pc \in {"listen", "speak", "wait", "barge_check"}
               /\ conversation_manager'.history # h)
              => (turn.pc = "listen" /\ turn'.pc = "generate")
           /\ turn.pc = "generate" => h[n] = <<"User", turn.user_text>>
           /\ (turn.pc = "speak" /\ sessions' # sessions)
              => h[n] = <<"Agent", turn.response>>
           /\ (turn.pc = "barge_check" /\ turn'.pc = "loop")
              => /\ conversation_manager.turn_count = turn.count_at_start + 2
                 /\ h[n - 1] = <<"User", turn.user_text>>
                 /\ h[n] = <<"Agent", turn.response>>]_vars

\* C14: a turn without barge-in has returned after its reply was played
C14_UninterruptedTurnDone ==
    /\ turn.pc = "loop"
    /\ turn.generation # "none"
    /\ call.result = "completed"
    /\ ~barge_in_detected
    /\ play[Current].pc = "done"
    /\ conversation_manager.turn_count = turn.count_at_start + 2

\* C15: when the utterance found while listening is an exit phrase (here
\* "Bye", or a phrase of the list as it stands), the turn ends the session
\* with the exit flag, and neither then nor later is the history changed, a
\* reply generated or anything spoken, whatever error_count is.
C15_ExitPhraseEndsSession ==
    [][/\ (/\ turn.pc = "listen"
            /\ turn'.user_text \in ExitPhrases \cup { <<"B", "y", "e">> })
           => /\ turn'.pc = "ended"
              /\ turn'.should_exit
              /\ conversation_manager' = conversation_manager
              /\ sessions' = sessions
       /\ turn.pc = "ended"
           => /\ turn' = turn
              /\ conversation_manager' = conversation_manager
              /\ sessions' = sessions]_vars

\* C15: the session has ended on "Bye" with error_count above zero
C15_ExitedWithErrors ==
    /\ turn.pc = "ended"
    /\ turn.should_exit
    /\ turn.user_text = <<"B", "y", "e">>
    /\ conversation_manager.error_count > 0

\* C16: an exit phrase captured as the interrupting utterance is not passed
\* to the reply generator.
C16_ExitPhraseNotAnswered ==
    ~(/\ turn.pc = "barge_generate"
      /\ Lower(Strip(turn.user_text)) \in ExitPhrases)

\* C17: no turn is started once three turns in a row have failed: at the
\* start of a turn error_count is below max_consecutive_errors.
C17_NoTurnAfterThreeFailures ==
    turn.pc = "listen" => conversation_manager.error_count < max_consecutive_errors

\* C18: error_count goes back to zero only in a turn whose reply the
\* generator has produced: not in a turn in which the generator failed.
C18_ResetOnlyOnSuccess ==
    [][(conversation_manager.error_count > 0
        /\ conversation_manager'.error_count = 0)
       => turn'.generation = "answered"]_vars

\* C19: a timeout while waiting for speech, or in the generation of the
\* reply, adds exactly one to error_count, and the turn goes on.
C19_TimeoutCountsOnce ==
    [][(\/ turn.pc = "listen" /\ turn'.pc = "loop"
        \/ turn.pc = "generate" /\ turn'.generation = "failed")
       => /\ conversation_manager'.error_count = conversation_manager.error_count + 1
          /\ turn'.pc # "ended"]_vars

\* C20: a turn in which no speech is found adds exactly one to error_count,
\* leaves the history and turn_count as they are, and returns to the loop for
\* the next turn.
C20_NoSpeechCountsOnce ==
    [][(/\ turn.pc = "listen"
        /\ turn'.pc # "listen"
        /\ turn'.user_text = EmptyText
        /\ ~turn'.raised)
       => /\ conversation_manager'.error_count = conversation_manager.error_count + 1
          /\ conversation_manager'.history = conversation_manager.history
          /\ conversation_manager'.turn_count = conversation_manager.turn_count
          /\ turn'.pc = "loop"]_vars

\* C20: a turn has returned without speech: one error, no record
C20_NoSpeechTurnDone ==
    /\ turn.pc = "loop"
    /\ turn.loop_count = 1
    /\ turn.user_text = EmptyText
    /\ ~turn.raised
    /\ conversation_manager.error_count = 1
    /\ conversation_manager.turn_count = 2

\* C21: an empty reply from the generator is replaced by the fallback text,
\* adds exactly one to error_count, and the fallback is the Agent record that
\* the turn appends and the response it goes on to speak.
C21_EmptyReplyFallsBack ==
    [][(/\ turn.pc \in {"generate", "barge_generate"}
        /\ turn'.pc # turn.pc
        /\ turn'.generation = "empty")
       => LET h == conversation_manager'.history
          IN  /\ turn'.response = FallbackText
              /\ conversation_manager'.error_count =
                    conversation_manager.error_count + 1
              /\ h[Len(h)] = <<"Agent", FallbackText>>]_vars

\* C22: for every max_history N from 1 on, the history never holds more than
\* N records; once N + 5 records were appended it holds exactly N, and the
\* first record ever appended is still the first.
C22_HistoryBounded ==
    LET h == conversation_manager.history
        N == conversation_manager.max_history
    IN  /\ Len(h) <= N
        /\ conversation_manager.turn_count >= N + ExtraRecords
              => /\ Len(h) = N
                 /\ h[1] = conversation_manager.appended[1]

\* C23: the records after the first are the most recent appended records: a
\* contiguous suffix of everything appended, in append order, each once and
\* unmodified.
C23_HistoryIsSuffix ==
    LET h == conversation_manager.history
        all == conversation_manager.appended
        n == Len(h) - 1
    IN  Len(h) > 0 =>
           /\ n <= Len(all)
           /\ \A i \in 1..n : h[i + 1] = all[Len(all) - n + i]

\* C24: handle_conversation_turn is entered at most max_turns times, each
\* entry counted once, and when max_turns turns have been started and the last
\* one reported continue the next step of main() ends the session.
C24_AtMostMaxTurns ==
    [][/\ (turn.pc # "listen" /\ turn'.pc = "listen")
          => /\ turn'.loop_count = turn.loop_count + 1
             /\ turn'.loop_count <= max_turns
       /\ (turn.pc = "loop" /\ turn.loop_count >= max_turns /\ turn' # turn)
          => (turn'.pc = "ended" /\ ~turn'.should_exit)]_vars

\* C24: the session has ended because max_turns turns were started, none of
\* which asked to exit
C24_SessionLimitReached ==
    /\ turn.pc = "ended"
    /\ ~turn.should_exit
    /\ turn.loop_count = max_turns

\* C25: a turn that was entered returns: the coordinator does not stay at
\* one of its waits for ever, even when the user stays silent and the language
\* model never answers.
C25_TurnReturns == (turn.pc = "listen") ~> (turn.pc \in {"loop", "ended"})

\* C26: the producer drops a frame only when its second timed put runs out
\* on a full queue; while the queue has room a put queues the frame, whether
\* or not a frame was dropped before.
C26_DropOnlyWhenFull ==
    [][\A s \in Sessions :
          LET t == engine.task[s]
              u == engine'.task[s]
          IN  /\ u.dropped # t.dropped
                 => /\ t.pc = "put"
                    /\ t.attempt = 2
                    /\ QueueFull(engine)
                    /\ u.dropped = t.dropped + 1
              /\ (t.pc = "put" /\ u # t /\ ~QueueFull(engine))
                 => /\ engine'.audio_queue = Append(engine.audio_queue, Frame(s))
                    /\ u.dropped = t.dropped
                    /\ u.left = t.left - 1]_vars

\* C26: a stream has dropped a frame and queued a later one
C26_QueuedAfterDrop ==
    \E s \in Sessions :
        /\ engine.task[s].dropped > 0
        /\ engine.task[s].kept_after_drop

\* C27: when stop_playback() returns the queue holds no audio frame and the
\* engine state is STOPPED.
C27_StopEmptiesQueue ==
    [][engine'.stop_calls # engine.stop_calls
       => /\ engine'.state = "STOPPED"
          /\ \A i \in 1..Len(engine'.audio_queue) :
                ~IsFrame(engine'.audio_queue[i])]_vars

\* C28: no frame that the consumer took from the queue while stop_event was
\* set is written to the audio stream.
C28_NoWriteAfterCancel == ~engine.wrote_cancelled

\* C29: a wait_for_completion() that returns after the session has ended on
\* a synthesis or playback error does not report completion.
C29_ErrorIsNotCompleted ==
    [][(/\ sessions >= 1
        /\ play[Current].pc = "failed"
        /\ call.result = "none"
        /\ call'.result # "none")
       => call'.result # "completed"]_vars

\* C30: the coordinator takes an utterance as a user input at most once:
\* neither step 1 of a turn nor the barge-in handling takes polling_text when
\* the utterance it holds has been taken before.
C30_UtteranceTakenOnce ==
    [][(\/ turn.pc = "listen" /\ turn'.user_text # EmptyText
        \/ turn.pc = "barge_text" /\ turn'.pc = "barge_final")
       => ~turn.consumed]_vars

C32_TurnErrorIsCounted ==
    [][/\ (turn'.raised /\ ~turn.raised)
          => /\ conversation_manager'.error_count
                  = conversation_manager.error_count + 1
             /\ IF conversation_manager'.error_count >= max_consecutive_errors
                THEN turn'.pc = "ended" /\ turn'.should_exit
                ELSE turn'.pc = "loop" /\ ~turn'.should_exit
       /\ (turn'.pc = "ended" /\ turn.pc \notin {"ended", "loop"})
          => \/ /\ turn'.raised
                /\ conversation_manager'.error_count >= max_consecutive_errors
             \/ IsExit(turn'.user_text)]_vars

\* a turn has raised with the ceiling reached and returned the exit outcome,
\* after earlier failures that returned the continue outcome
C32_RaisedAtCeiling ==
    /\ turn.raised
    /\ turn.pc = "ended"
    /\ turn.should_exit
    /\ conversation_manager.error_count = max_consecutive_errors
    /\ turn.loop_count = max_consecutive_errors

\* ------------------------------------------------------------------ C34
\* C34: once speak() has returned, the new session is observable as playing:
\* a wait_for_completion() called right after it does not return before the
\* playback thread has started the session (play_audio has set is_playing)
C34_WaitSeesNewSession ==
    (variant = "piper" /\ Current \in Sessions /\ call.result # "none")
        => play[Current].pc # "start"

\* ------------------------------------------------------------------ C33
\* C33: in the Piper handler and on the SystemEngine path, when
\* is_barge_in_detected() is True after speak() and wait_for_completion(), a
\* monitor confirmed barge-in or stop_playback() was called since that speak()
\* returned: the flag of an earlier session is not carried over
C33_FlagIsFromThisSession ==
    (/\ variant \in {"piper", "system"}
     /\ call.result # "none"
     /\ barge_in_detected)
        => call.flagged

\* ------------------------------------------------------------------ C35
\* the barge-in monitor threads that have not returned
LiveMonitors == { s \in Sessions : mon[s].pc \in {"start", "loop", "confirm"} }

\* C35: a barge-in monitor thread returns once its session has ended, so at
\* most one monitor thread is alive however many sessions were played: when
\* the current session's monitor is past its startup buffer and polls, no
\* monitor of an earlier session is still alive
C35_OneLiveMonitor ==
    (variant = "piper" /\ Current \in Sessions /\ Polling(Current))
        => LiveMonitors \subseteq {Current}

\* ------------------------------------------------------------------ C36
\* C36: on the Cartesia path is_playing is True and cartesia_future is set for
\* as long as the current session streams: the monitor_completion thread of a
\* superseded session does not clear them
C36_PlayingWhileStreaming ==
    (variant = "cartesia" /\ Current \in Sessions /\ Receiving(Current))
        => (is_playing /\ engine.future = Current)

\* ------------------------------------------------------------------ C37
\* C37: sessions do not reach each other through the shared queue and
\* stop_event: once synthesize_and_play() has started a new session, no frame
\* queued by an earlier session is written to the audio stream, and no frame
\* of the new session is thrown away because of the earlier session's "STOP"
\* marker or stop_event
C37_SessionsDoNotLeak == ~engine.wrote_stale /\ ~engine.lost_new

\* ------------------------------------ STTHandler on its own: the polling
\* The handler without a coordinator: a caller starts and stops listening and
\* polling in any order, at most MaxStarts start_polling_for_barge_in() calls.
MaxStarts == 3

\* STTHandler.start_polling_for_barge_in: with polling_lock: a set
\* polling_active returns; else the flag is set and a worker thread started
start_polling_for_barge_in(s) ==
    IF s.polling_active
    THEN [s EXCEPT !.starts = @ + 1]
    ELSE [s EXCEPT !.polling_active = TRUE, !.workers = @ + 1, !.starts = @ + 1]

\* STTHandler.stop_polling_for_barge_in: with polling_lock: the flag is
\* cleared; the thread is not joined
stop_polling_for_barge_in(s) == [s EXCEPT !.polling_active = FALSE]

\* STTHandler.stop_listening: the flag is cleared, polling_thread is joined
\* for at most 1 s, the recorder is dropped
stop_listening(s) == [s EXCEPT !.polling_active = FALSE, !.is_listening = FALSE]

\* everything but the STT handler's polling state
pollingFrame == <<envVars, flagVars, stream_is_playing, callVars, play, mon,
                  confirmLog, engine, conversation_manager, turn>>

\* STTHandler.start_listening: the recorder is created
StartListening ==
    /\ ~stt.is_listening
    /\ stt' = [stt EXCEPT !.is_listening = TRUE]
    /\ UNCHANGED <<pollingFrame, polling_text>>

\* a caller runs start_polling_for_barge_in()
StartPolling ==
    /\ stt.starts < MaxStarts
    /\ stt' = start_polling_for_barge_in(stt)
    /\ UNCHANGED <<pollingFrame, polling_text>>

\* a caller runs stop_polling_for_barge_in() while polling is on
StopPolling ==
    /\ stt.polling_active
    /\ stt' = stop_polling_for_barge_in(stt)
    /\ UNCHANGED <<pollingFrame, polling_text>>

\* a caller runs stop_listening() on a listening handler
StopListening ==
    /\ stt.is_listening
    /\ stt' = stop_listening(stt)
    /\ UNCHANGED <<pollingFrame, polling_text>>

\* _polling_worker, one pass of `while self.polling_active` by a live worker
\* with a recorder: the stripped transcription, or "", is stored
WorkerCycle ==
    /\ stt.workers > 0
    /\ stt.polling_active
    /\ stt.is_listening
    /\ \E u \in Utterances :
          /\ Strip(u) # polling_text
          /\ polling_text' = Strip(u)
    /\ UNCHANGED <<pollingFrame, stt>>

\* _polling_worker: a worker is back at the head of its loop, finds
\* polling_active cleared and returns
WorkerExit ==
    /\ stt.workers > 0
    /\ ~stt.polling_active
    /\ stt' = [stt EXCEPT !.workers = @ - 1]
    /\ UNCHANGED <<pollingFrame, polling_text>>

PollingInit ==
    /\ variant = "piper"
    /\ HandlerInit
    /\ stt = SttIdle
    /\ is_barge_in_enabled = TRUE
    /\ conversation_manager = ManagerInit
    /\ turn = TurnIdle

PollingNext ==
    \/ StartListening
    \/ StartPolling
    \/ StopPolling
    \/ StopListening
    \/ WorkerCycle
    \/ WorkerExit

PollingSpec == PollingInit /\ [][PollingNext]_vars

\* ------------------------------------------------------------------ C38
\* C38: at most one polling worker thread is alive, whatever the order of
\* start_polling_for_barge_in(), stop_polling_for_barge_in() and
\* stop_listening() calls
C38_OnePollingWorker == stt.workers <= 1

\* ------------------------------------------------------------------ C39
\* C39: every Agent record given to add_turn, and every response about to be
\* passed to speak(), the reply to an interrupting utterance included, has at
\* least 3 non-blank characters (a valid reply or the fallback text)
C39_AgentRepliesValid ==
    LET a == conversation_manager.appended
    IN  /\ \A i \in 1..Len(a) :
              a[i][1] = "Agent" => ~InvalidResponse(a[i][2])
        /\ turn.pc \in {"speak", "barge_speak"} => ~InvalidResponse(turn.response)

\* ------------------------------------------------------------------ C40
\* C40: while a session started with speak(..., enable_barge_in=False) is
\* playing, no detector sets barge_in_detected or stop_event: user speech does
\* not interrupt it (stop_playback() calls are not detectors and are left out)
C40_DisabledSessionUndisturbed ==
    [][(/\ variant = "piper"
        /\ Current \in Sessions
        /\ sessions' = sessions
        /\ tpc' = tpc
        /\ ~is_barge_in_enabled
        /\ play[Current].pc \in {"start", "feed", "wait"})
       => /\ barge_in_detected' => barge_in_detected
          /\ stop_event' => stop_event]_vars

====
